---------------------------- MODULE Spec2Model ----------------------------
(***************************************************************************)
(* Model of src/lib/booking-service.ts (BookingService): the booking       *)
(* orchestration createBooking = createSquareBooking followed by           *)
(* syncBookingWithBackend, the stand-alone syncBookingWithBackend, and     *)
(* searchAvailability.  Every await on a network call is a position of     *)
(* the caller (pc); the provider's and the backend's answers are inputs.   *)
(***************************************************************************)
EXTENDS Integers, Sequences, FiniteSets, TLC

VARIABLES
    pc,               \* position of the single thread of control
    attempts,         \* createBooking executions started so far
    uuidCount,        \* crypto.randomUUID() values drawn so far
    bookingData,      \* createBooking / syncBookingWithBackend: the BookingRequest argument
    idempotencyKey,   \* createBooking: the local const idempotencyKey (line 189)
    squareOutcome,    \* what the fetch of /api/create-square-booking produced
    squareResponse,   \* createBooking: the local const squareResponse (line 192)
    squareBookingId,  \* syncBookingWithBackend: the squareBookingId argument
    syncOutcome,      \* what the fetch of <backend>/bookings produced
    backendResponse,  \* value returned by syncBookingWithBackend
    result,           \* how the operation in progress completed (returned / thrown)
    providerRequests, \* requests sent to the provider in this execution
    syncRequests,     \* requests sent to <backend>/bookings in this execution
    providerLog,      \* every provider call of every execution: request and key sent
    syncLog,          \* every backend sync call of every execution: request and key sent
    providerStore,    \* bookings held by the provider
    backendStore,     \* bookings held by the backend
    searchArgs,       \* searchAvailability: its arguments
    searchRequests,   \* requests sent to <backend>/services/availability/search
    searchOutcome     \* what that fetch produced

vars == << pc, attempts, uuidCount, bookingData, idempotencyKey, squareOutcome,
           squareResponse, squareBookingId, syncOutcome, backendResponse, result,
           providerRequests, syncRequests, providerLog, syncLog, providerStore,
           backendStore, searchArgs, searchRequests, searchOutcome >>

bookingVars == << attempts, uuidCount, idempotencyKey, squareOutcome, squareResponse,
                  providerRequests, providerLog, syncLog, providerStore, backendStore >>

searchVars == << searchArgs, searchRequests, searchOutcome >>

----------------------------------------------------------------------------
(* Bounds of the model *)

\* createBooking executions the caller starts (the first attempt and its retries)
MaxAttempts == 2

----------------------------------------------------------------------------
(* JavaScript values *)

\* the value undefined (an absent optional string)
Undefined == "<undefined>"

\* the JSON value null; every other JSON value of the model is an object (a record)
Null == [null |-> TRUE]

\* truthiness of a string-or-undefined: undefined and "" are falsy
TruthyStr(s) == s # Undefined /\ s # ""

\* truthiness of a JSON value: null is falsy, an object is truthy
Truthy(v) == v # Null

\* obj.field of an optional string field
Field(obj, f) == IF f \in DOMAIN obj THEN obj[f] ELSE Undefined

\* { ...obj, [f]: v }
Spread(obj, f, v) == [k \in DOMAIN obj \cup {f} |-> IF k = f THEN v ELSE obj[k]]

\* completion of an async function: a returned value or a thrown error
Return(v) == [kind |-> "return", value |-> v]
Throw(e) == [kind |-> "throw", value |-> [error |-> e]]
NoResult == [kind |-> "none", value |-> Null]

----------------------------------------------------------------------------
(* Date: time values are (day, ms-in-day) pairs so that the full           *)
(* ECMAScript range of +-8.64e15 ms is kept without overflow.              *)

MsPerDay == 86400000
MsPerMinute == 60000
\* the time range of Date: +-100,000,000 days around the epoch
MaxDay == 100000000
\* the literal 3600000 of the synthetic end time
OneHourMs == 3600000

\* an ISO-8601 string: day and ms-in-day as written, off = its zone offset in minutes
DateString(d, m, o) == [valid |-> TRUE, day |-> d, ms |-> m, off |-> o]
\* a string that is no date (also what new Date(undefined) is built from)
NotADate == [valid |-> FALSE, day |-> 0, ms |-> 0, off |-> 0]

NaN == [nan |-> TRUE, day |-> 0, ms |-> 0]
Time(d, m) == [nan |-> FALSE, day |-> d, ms |-> m]

Normalize(d, m) == Time(d + (m \div MsPerDay), m % MsPerDay)

\* TimeClip: a time value beyond +-8.64e15 ms is NaN
TimeClip(t) ==
    IF t.nan THEN NaN
    ELSE IF (t.day >= -MaxDay /\ t.day < MaxDay) \/ (t.day = MaxDay /\ t.ms = 0)
         THEN t ELSE NaN

\* new Date(s).getTime()
DateParse(s) ==
    IF ~s.valid THEN NaN
    ELSE TimeClip(Normalize(s.day, s.ms - s.off * MsPerMinute))

\* new Date(t + n).getTime()
AddMs(t, n) == IF t.nan THEN NaN ELSE TimeClip(Normalize(t.day, t.ms + n))

\* Date.prototype.toISOString: UTC ("Z"); RangeError on an invalid date
ToISOString(t) ==
    IF t.nan THEN Throw("RangeError: Invalid time value")
    ELSE Return(DateString(t.day, t.ms, 0))

\* a < b on time values (false when either is NaN)
TimeLess(a, b) ==
    /\ ~a.nan /\ ~b.nan
    /\ (a.day < b.day \/ (a.day = b.day /\ a.ms < b.ms))

----------------------------------------------------------------------------
(* Inputs: the caller's arguments and the answers of the two remote systems *)

\* date strings used as inputs
D1 == DateString(20240, 36000000, 0)         \* a UTC time, 10:00
D2 == DateString(20240, 84600000, 600)       \* 23:30 at +10:00
D3 == DateString(20240, 84600000, 0)         \* 23:30 UTC: one hour later is the next day
DMax == DateString(MaxDay, 0, 0)             \* the last instant a Date can hold

\* BookingRequest values (idempotencyKey is optional: absent, "" or a caller's key)
BaseRequests ==
    { [service_variation_id |-> "sv1", team_member_id |-> "tm1", start_at |-> d] :
        d \in {D1, D2} }
CallerKeys == {"", "k1"}
BookingRequests ==
    BaseRequests \cup { Spread(b, "idempotencyKey", k) : b \in BaseRequests, k \in CallerKeys }

\* the n-th value of crypto.randomUUID(): fresh, and no caller's key
RandomUUID(n) == "uuid-" \o ToString(n)

\* What a fetch followed by response.json() can produce.
\*   net:     the fetch promise resolved (TRUE) or rejected
\*   ok:      response.ok
\*   json:    the body parses as JSON
\*   data:    the parsed body
\*   created: the remote system stored the booking while handling the request
Outcome(n, o, j, d, c) == [net |-> n, ok |-> o, json |-> j, data |-> d, created |-> c]
NoOutcome == Outcome(FALSE, FALSE, FALSE, Null, FALSE)

Booking(i, s, d) == [id |-> i, status |-> s, startAt |-> d]

ProviderOutcomes ==
    { Outcome(FALSE, FALSE, FALSE, Null, FALSE),     \* network error, request lost
      Outcome(FALSE, FALSE, FALSE, Null, TRUE),      \* network error, response lost
      Outcome(TRUE, FALSE, FALSE, Null, FALSE),      \* 502 with an HTML body
      Outcome(TRUE, FALSE, TRUE, [success |-> FALSE, message |-> "Slot taken"], FALSE),
      Outcome(TRUE, TRUE, TRUE, [success |-> FALSE], FALSE),
      Outcome(TRUE, TRUE, TRUE, Null, FALSE),
      Outcome(TRUE, FALSE, TRUE,
              [success |-> TRUE, booking |-> Booking("sq1", "PENDING", D1)], TRUE),
      Outcome(TRUE, TRUE, TRUE,
              [success |-> TRUE, booking |-> Booking("sq1", "PENDING", D1)], TRUE),
      Outcome(TRUE, TRUE, TRUE,
              [success |-> TRUE, booking |-> Booking("sq2", "", D2)], TRUE),
      Outcome(TRUE, TRUE, TRUE,
              [success |-> TRUE, booking |-> Booking("sq3", "ACCEPTED", D3)], TRUE),
      Outcome(TRUE, TRUE, TRUE,
              [success |-> TRUE, booking |-> Booking("sq4", "ACCEPTED", NotADate)], TRUE),
      Outcome(TRUE, TRUE, TRUE,
              [success |-> TRUE, booking |-> Booking("sq5", "ACCEPTED", DMax)], TRUE),
      Outcome(TRUE, TRUE, TRUE, [success |-> TRUE], TRUE) }

BackendBooking(i, sq, s, e) ==
    [ data |-> [id |-> i, square_booking_id |-> sq, service_name |-> "Haircut",
                start_at |-> s, end_at |-> e, status |-> "ACCEPTED"],
      status_code |-> 201, message |-> "Booking created" ]

BackendOutcomes ==
    { Outcome(FALSE, FALSE, FALSE, Null, FALSE),     \* network error, request lost
      Outcome(FALSE, FALSE, FALSE, Null, TRUE),      \* network error, response lost
      Outcome(TRUE, FALSE, FALSE, Null, FALSE),      \* 500 with an HTML body
      Outcome(TRUE, FALSE, TRUE, [message |-> "Unauthorized"], FALSE),
      Outcome(TRUE, TRUE, FALSE, Null, TRUE),        \* 2xx with an empty body
      Outcome(TRUE, TRUE, TRUE, Null, TRUE),         \* 2xx with the body null
      Outcome(TRUE, TRUE, TRUE, BackendBooking(17, "sq1", D1, DateString(20240, 37800000, 0)), TRUE),
      Outcome(TRUE, TRUE, TRUE, BackendBooking(18, "sq2", D2, DateString(20241, 1800000, 600)), TRUE) }

----------------------------------------------------------------------------
(* BookingService.createSquareBooking *)

DefaultSquareError == "Failed to create Square booking"

\* SquareBody without the check of response.ok and data.success (line 137)
SquareBodyUnchecked(o) ==
    IF ~o.json THEN Throw("SyntaxError: Unexpected token") ELSE Return(o.data)

\* lines 135-141: the body of the try block once the fetch has resolved
SquareBody(o) ==
    IF ~o.json THEN Throw("SyntaxError: Unexpected token")
    ELSE IF o.data = Null THEN Throw("TypeError: Cannot read properties of null")
    ELSE IF ~o.ok \/ ~("success" \in DOMAIN o.data /\ o.data.success)
         THEN Throw(IF TruthyStr(Field(o.data, "message"))
                    THEN o.data.message ELSE DefaultSquareError)
         ELSE Return(o.data)

\* createSquareBooking whose catch block returns a failure object instead of rethrowing
createSquareBookingSwallowing(o) ==
    LET c == IF ~o.net THEN Throw("TypeError: Failed to fetch") ELSE SquareBody(o)
    IN  IF c.kind = "throw" THEN Return([success |-> FALSE, message |-> c.value.error]) ELSE c

\* lines 125-146: the catch block logs and rethrows
createSquareBooking(o) ==
    IF ~o.net THEN Throw("TypeError: Failed to fetch") ELSE SquareBody(o)

\* lines 192-202: the SquareBookingRequest createBooking builds (undefined fields
\* are dropped by JSON.stringify)
SquareRequest(bd, key) ==
    [ serviceVariationId |-> bd.service_variation_id,
      teamMemberId |-> bd.team_member_id,
      startAt |-> bd.start_at,
      idempotencyKey |-> key ]

----------------------------------------------------------------------------
(* BookingService.syncBookingWithBackend *)

\* lines 158-160: the request body
SyncRequestData(bd, sqId) ==
    IF TruthyStr(sqId) THEN Spread(bd, "square_booking_id", sqId) ELSE bd

\* lines 171-175: the body of the try block once the fetch has resolved
SyncBody(o) ==
    IF ~o.json THEN Throw("SyntaxError: Unexpected end of JSON input")
    ELSE Return(IF o.ok THEN o.data ELSE Null)

\* syncBookingWithBackend without its catch block
syncBookingWithBackendNoCatch(o) ==
    IF ~o.net THEN Throw("TypeError: Failed to fetch") ELSE SyncBody(o)

\* lines 156-180: the catch block logs and returns null
syncBookingWithBackend(o) ==
    LET c == IF ~o.net THEN Throw("TypeError: Failed to fetch") ELSE SyncBody(o)
    IN  IF c.kind = "throw" THEN Return(Null) ELSE c

----------------------------------------------------------------------------
(* BookingService.createBooking *)

\* a key that ignores the caller's idempotencyKey
IdempotencyKeyAlwaysFresh(bd, uuid) == uuid

\* line 189: bookingData.idempotencyKey || crypto.randomUUID()
IdempotencyKeyOf(bd, uuid) ==
    IF TruthyStr(Field(bd, "idempotencyKey")) THEN bd.idempotencyKey ELSE uuid

\* the sync call given bookingData as it came, without the key of this execution
SyncBookingDataAsGiven(bd, key) == bd

\* lines 206-212: the arguments of the sync call
SyncBookingData(bd, key) == Spread(bd, "idempotencyKey", key)
\* line 211: squareResponse.booking?.id
OptionalBookingId(sq) == IF "booking" \in DOMAIN sq THEN sq.booking.id ELSE Undefined

\* lines 218-229: the synthetic response (line 224 throws on an invalid date)
SyntheticResponse(booking) ==
    LET endAt == ToISOString(AddMs(DateParse(booking.startAt), OneHourMs))
    IN  IF endAt.kind = "throw" THEN endAt
        ELSE Return([ data |-> [ id |-> 0,
                                 square_booking_id |-> booking.id,
                                 service_name |-> "Your appointment",
                                 start_at |-> booking.startAt,
                                 end_at |-> endAt.value,
                                 status |-> IF TruthyStr(booking.status)
                                            THEN booking.status ELSE "ACCEPTED" ],
                      status_code |-> 200,
                      message |-> "Booking created in Square but not yet synced with backend" ])

BothFailedError == "Failed to create booking in both Square and backend systems"

\* createBooking preferring the synthetic response whenever the provider sent a booking
CreateBookingResultSyntheticFirst(sq, be) ==
    IF "booking" \in DOMAIN sq
    THEN SyntheticResponse(sq.booking)
    ELSE IF Truthy(be) THEN Return(be) ELSE Throw(BothFailedError)

\* lines 216-239: what createBooking does with the two responses
CreateBookingResult(sq, be) ==
    IF ~Truthy(be) /\ "booking" \in DOMAIN sq
    THEN SyntheticResponse(sq.booking)
    ELSE IF Truthy(be) THEN Return(be) ELSE Throw(BothFailedError)

----------------------------------------------------------------------------
(* BookingService.searchAvailability *)

\* the value undefined where a JSON value is expected
UndefinedValue == [undefined |-> TRUE]

\* Date arguments of the caller (NaN: an Invalid Date)
SearchDates == { Time(20240, 0), Time(20241, 0), Time(20247, 43200000), NaN }
ServiceIds == {"sv1", "sv2"}

Slot(d) == [start_at |-> d, location_id |-> "L1"]
Availability(slots) == [availabilities_by_date |-> slots, errors |-> << >>]

SearchOutcomes ==
    { Outcome(FALSE, FALSE, FALSE, Null, FALSE),     \* network error
      Outcome(TRUE, FALSE, FALSE, Null, FALSE),      \* 500 with an HTML body
      Outcome(TRUE, FALSE, TRUE, [message |-> "Invalid date range"], FALSE),
      Outcome(TRUE, FALSE, TRUE, [data |-> Availability(<< >>)], FALSE),
      Outcome(TRUE, TRUE, FALSE, Null, FALSE),       \* 2xx with an empty body
      Outcome(TRUE, TRUE, TRUE, Null, FALSE),        \* 2xx with the body null
      Outcome(TRUE, TRUE, TRUE, [message |-> "ok"], FALSE),
      Outcome(TRUE, TRUE, TRUE, [data |-> Availability(<< >>)], FALSE),
      Outcome(TRUE, TRUE, TRUE, [data |-> Availability(<< Slot(D1), Slot(D3) >>)], FALSE) }

\* searchAvailability with a local check of the date range
SearchRequestValidated(sv, startDate, endDate) ==
    LET s == ToISOString(startDate)
        e == ToISOString(endDate)
    IN  IF s.kind = "throw" THEN s
        ELSE IF e.kind = "throw" THEN e
        ELSE IF TimeLess(endDate, startDate) THEN Throw("Invalid date range")
        ELSE Return([service_variation_id |-> sv, start_at |-> s.value, end_at |-> e.value])

\* lines 256-260: the request body (toISOString throws on an Invalid Date)
SearchRequest(sv, startDate, endDate) ==
    LET s == ToISOString(startDate)
        e == ToISOString(endDate)
    IN  IF s.kind = "throw" THEN s
        ELSE IF e.kind = "throw" THEN e
        ELSE Return([service_variation_id |-> sv, start_at |-> s.value, end_at |-> e.value])

\* SearchBody without the check of response.ok (line 263)
SearchBodyUnchecked(o) ==
    IF ~o.json THEN Throw("SyntaxError: Unexpected end of JSON input")
    ELSE IF o.data = Null THEN Throw("TypeError: Cannot read properties of null")
    ELSE Return(IF "data" \in DOMAIN o.data THEN o.data.data ELSE UndefinedValue)

\* lines 263-268: after the fetch has resolved
SearchBody(o) ==
    IF ~o.ok THEN Throw("Failed to fetch availability")
    ELSE IF ~o.json THEN Throw("SyntaxError: Unexpected end of JSON input")
    ELSE IF o.data = Null THEN Throw("TypeError: Cannot read properties of null")
    ELSE Return(IF "data" \in DOMAIN o.data THEN o.data.data ELSE UndefinedValue)

\* lines 245-269: no try/catch, every failure rejects
searchAvailability(o) ==
    IF ~o.net THEN Throw("TypeError: Failed to fetch") ELSE SearchBody(o)

----------------------------------------------------------------------------
(* The remote systems: each keeps one booking per idempotency key *)

DedupInsert(store, req) ==
    IF \E r \in store : r.idempotencyKey = req.idempotencyKey THEN store ELSE store \cup {req}

----------------------------------------------------------------------------
(* State machine *)

NoRequest == [service_variation_id |-> "", team_member_id |-> "", start_at |-> NotADate]
NoSearchArgs == [serviceVariationId |-> "", startDate |-> NaN, endDate |-> NaN]

Init ==
    /\ pc = "idle"
    /\ attempts = 0
    /\ uuidCount = 0
    /\ bookingData = NoRequest
    /\ idempotencyKey = Undefined
    /\ squareOutcome = NoOutcome
    /\ squareResponse = Null
    /\ squareBookingId = Undefined
    /\ syncOutcome = NoOutcome
    /\ backendResponse = Null
    /\ result = NoResult
    /\ providerRequests = << >>
    /\ syncRequests = << >>
    /\ providerLog = {}
    /\ syncLog = {}
    /\ providerStore = {}
    /\ backendStore = {}
    /\ searchArgs = NoSearchArgs
    /\ searchRequests = << >>
    /\ searchOutcome = NoOutcome

\* createBooking, lines 187-202 and 127-133: the caller starts an execution (a first
\* attempt or a retry); the key is chosen and the provider request is sent
CreateBookingCall(bd) ==
    /\ pc \in {"idle", "done"}
    /\ attempts < MaxAttempts
    /\ LET drawn == ~TruthyStr(Field(bd, "idempotencyKey"))
           key == IdempotencyKeyOf(bd, RandomUUID(uuidCount + 1))
       IN  /\ uuidCount' = IF drawn THEN uuidCount + 1 ELSE uuidCount
           /\ idempotencyKey' = key
           /\ providerRequests' = << SquareRequest(bd, key) >>
           /\ providerLog' = providerLog \cup {[req |-> bd, key |-> SquareRequest(bd, key).idempotencyKey]}
    /\ attempts' = attempts + 1
    /\ bookingData' = bd
    /\ pc' = "awaitSquare"
    /\ squareOutcome' = NoOutcome
    /\ squareResponse' = Null
    /\ squareBookingId' = Undefined
    /\ syncOutcome' = NoOutcome
    /\ backendResponse' = Null
    /\ result' = NoResult
    /\ syncRequests' = << >>
    /\ UNCHANGED << syncLog, providerStore, backendStore, searchVars >>

\* createBooking, lines 135-146 and 204-212, 158-169: the provider answers; on failure
\* createBooking rejects, otherwise the sync request is sent
SquareResponds(o) ==
    /\ pc = "awaitSquare"
    /\ squareOutcome' = o
    /\ providerStore' = IF o.created THEN DedupInsert(providerStore, providerRequests[1])
                        ELSE providerStore
    /\ LET c == createSquareBooking(o)
       IN  IF c.kind = "throw"
           THEN /\ result' = c
                /\ pc' = "done"
                /\ UNCHANGED << squareResponse, squareBookingId, syncRequests, syncLog >>
           ELSE LET sqId == OptionalBookingId(c.value)
                    data == SyncRequestData(SyncBookingData(bookingData, idempotencyKey), sqId)
                IN  /\ squareResponse' = c.value
                    /\ squareBookingId' = sqId
                    /\ syncRequests' = Append(syncRequests, data)
                    /\ syncLog' = syncLog \cup {[req |-> bookingData, key |-> Field(data, "idempotencyKey")]}
                    /\ result' = result
                    /\ pc' = "awaitSync"
    /\ UNCHANGED << attempts, uuidCount, bookingData, idempotencyKey, syncOutcome,
                    backendResponse, providerRequests, providerLog, backendStore, searchVars >>

\* createBooking, lines 171-180 and 214-239: the backend answers the sync request and
\* createBooking completes
BackendResponds(o) ==
    /\ pc = "awaitSync"
    /\ syncOutcome' = o
    /\ backendStore' = IF o.created THEN DedupInsert(backendStore, syncRequests[1])
                       ELSE backendStore
    /\ LET c == syncBookingWithBackend(o)
       IN  IF c.kind = "throw"
           THEN /\ result' = c
                /\ UNCHANGED backendResponse
           ELSE /\ backendResponse' = c.value
                /\ result' = CreateBookingResult(squareResponse, c.value)
    /\ pc' = "done"
    /\ UNCHANGED << attempts, uuidCount, bookingData, idempotencyKey, squareOutcome,
                    squareResponse, squareBookingId, providerRequests, syncRequests,
                    providerLog, syncLog, providerStore, searchVars >>

Next ==
    \/ \E bd \in BookingRequests : CreateBookingCall(bd)
    \/ \E o \in ProviderOutcomes : SquareResponds(o)
    \/ \E o \in BackendOutcomes : BackendResponds(o)

\* createBooking with the caller free to retry
Spec == Init /\ [][Next]_vars

----------------------------------------------------------------------------
(* syncBookingWithBackend called on its own *)

SquareBookingIds == {Undefined, "", "sq1", "sq2"}

\* lines 152-169: the request is built and sent
SyncCall(bd, sqId) ==
    /\ pc \in {"idle", "done"}
    /\ bookingData' = bd
    /\ squareBookingId' = sqId
    /\ syncRequests' = << SyncRequestData(bd, sqId) >>
    /\ syncOutcome' = NoOutcome
    /\ backendResponse' = Null
    /\ result' = NoResult
    /\ pc' = "awaitSyncOnly"
    /\ UNCHANGED << bookingVars, searchVars >>

\* lines 171-180: the backend answers and the function completes
SyncResponds(o) ==
    /\ pc = "awaitSyncOnly"
    /\ syncOutcome' = o
    /\ LET c == syncBookingWithBackend(o)
       IN  /\ result' = c
           /\ backendResponse' = IF c.kind = "return" THEN c.value ELSE backendResponse
    /\ pc' = "done"
    /\ UNCHANGED << bookingData, squareBookingId, syncRequests, bookingVars, searchVars >>

NextSync ==
    \/ \E bd \in BookingRequests, sqId \in SquareBookingIds : SyncCall(bd, sqId)
    \/ \E o \in BackendOutcomes : SyncResponds(o)

SpecSync == Init /\ [][NextSync]_vars

----------------------------------------------------------------------------
(* searchAvailability *)

\* lines 245-261: the request body is built (which may throw) and sent
SearchCall(sv, startDate, endDate) ==
    /\ pc \in {"idle", "done"}
    /\ searchArgs' = [serviceVariationId |-> sv, startDate |-> startDate, endDate |-> endDate]
    /\ searchOutcome' = NoOutcome
    /\ LET r == SearchRequest(sv, startDate, endDate)
       IN  IF r.kind = "throw"
           THEN /\ searchRequests' = << >>
                /\ result' = r
                /\ pc' = "done"
           ELSE /\ searchRequests' = << r.value >>
                /\ result' = NoResult
                /\ pc' = "awaitSearch"
    /\ UNCHANGED << bookingData, squareBookingId, syncOutcome, backendResponse,
                    syncRequests, bookingVars >>

\* lines 263-268: the backend answers and the function completes
SearchResponds(o) ==
    /\ pc = "awaitSearch"
    /\ searchOutcome' = o
    /\ result' = searchAvailability(o)
    /\ pc' = "done"
    /\ UNCHANGED << searchArgs, searchRequests, bookingData, squareBookingId, syncOutcome,
                    backendResponse, syncRequests, bookingVars >>

NextSearch ==
    \/ \E sv \in ServiceIds, s \in SearchDates, e \in SearchDates : SearchCall(sv, s, e)
    \/ \E o \in SearchOutcomes : SearchResponds(o)

SpecSearch == Init /\ [][NextSearch]_vars

----------------------------------------------------------------------------
(* Vocabulary of the properties, stated on what the remote systems answered *)

\* the provider call succeeded: a 2xx response whose body has success = true
ProviderSucceeded(o) ==
    o.net /\ o.ok /\ o.json /\ o.data # Null /\ "success" \in DOMAIN o.data /\ o.data.success

\* the backend sync failed: network error or non-2xx
SyncFailed(o) == ~o.net \/ ~o.ok

\* the backend sync succeeded: 2xx with a body
SyncSucceeded(o) == o.net /\ o.ok /\ o.json /\ o.data # Null

\* a createBooking execution has completed
BookingDone == pc = "done" /\ Len(providerRequests) = 1

\* the log entries (provider and sync calls of all attempts) made for request r
CallsFor(r) == { e \in providerLog \cup syncLog : e.req = r }
KeysFor(r) == { e.key : e \in CallsFor(r) }
RecordsFor(store, r) == { b \in store : b.idempotencyKey \in KeysFor(r) }

SuppliesKey(r) == TruthyStr(Field(r, "idempotencyKey"))

----------------------------------------------------------------------------
(* Properties *)

\* C1: when the provider call fails (network error, non-OK response, success = false,
\* or a body that cannot be read), createBooking rejects with the provider step's
\* error and no backend sync request is issued in that execution.
C1_ProviderFailureRejects ==
    (pc \in {"awaitSync", "done"} /\ Len(providerRequests) = 1
        /\ ~ProviderSucceeded(squareOutcome))
    => /\ pc = "done"
       /\ result.kind = "throw"
       /\ result.value.error # BothFailedError
       /\ (squareOutcome.net /\ squareOutcome.json /\ squareOutcome.data # Null
             /\ TruthyStr(Field(squareOutcome.data, "message"))
           => result.value.error = squareOutcome.data.message)
       /\ syncRequests = << >>

\* C1 witness: a retry whose provider response was 4xx with success = false
C1_Witness ==
    /\ BookingDone /\ attempts = 2
    /\ squareOutcome.net /\ ~squareOutcome.ok /\ squareOutcome.json
    /\ squareOutcome.data # Null /\ ~squareOutcome.data.success
    /\ result = Throw("Slot taken")
    /\ syncRequests = << >>

\* C2 (as claimed): once the provider call has succeeded, createBooking returns a
\* BookingResult and never rejects, whatever the backend sync does.
C2_NeverRejectsAfterProviderSuccess ==
    (BookingDone /\ ProviderSucceeded(squareOutcome)) => result.kind = "return"

\* C3 (as claimed): provider success and backend sync failure give the synthetic
\* result: status_code 200, data.id 0, the provider booking's id, end = start + 1 h.
C3_SyntheticOnSyncFailure ==
    (BookingDone /\ ProviderSucceeded(squareOutcome) /\ SyncFailed(syncOutcome))
    => /\ result.kind = "return"
       /\ result.value.status_code = 200
       /\ result.value.data.id = 0
       /\ result.value.data.square_booking_id = squareOutcome.data.booking.id
       /\ DateParse(result.value.data.end_at)
            = AddMs(DateParse(result.value.data.start_at), OneHourMs)

\* C4: provider success and backend sync success (2xx with a body) return exactly the
\* backend's response, not the synthetic one.
C4_BackendResponseReturned ==
    (BookingDone /\ ProviderSucceeded(squareOutcome) /\ SyncSucceeded(syncOutcome))
    => /\ result = Return(syncOutcome.data)
       /\ ("booking" \in DOMAIN squareOutcome.data
           => result # SyntheticResponse(squareOutcome.data.booking))

\* C4 witness: both calls succeeded and the backend's record 17 came back
C4_Witness ==
    /\ BookingDone /\ ProviderSucceeded(squareOutcome) /\ SyncSucceeded(syncOutcome)
    /\ "booking" \in DOMAIN squareOutcome.data
    /\ result.kind = "return" /\ result.value.data.id = 17

\* C5: within one createBooking execution the key of the sync request equals the key
\* of the provider request: the caller's key when one was supplied, else the one
\* freshly generated key.
C5_SameKeyBothCalls ==
    Len(providerRequests) = 1
    => LET k == providerRequests[1].idempotencyKey
       IN  /\ \A i \in 1..Len(syncRequests) : Field(syncRequests[i], "idempotencyKey") = k
           /\ (SuppliesKey(bookingData) => k = bookingData.idempotencyKey)
           /\ (~SuppliesKey(bookingData) => k = RandomUUID(uuidCount))

\* C5 witness: the sync request of a request without a key has been sent
C5_Witness ==
    /\ Len(providerRequests) = 1 /\ Len(syncRequests) = 1
    /\ ~SuppliesKey(bookingData)
    /\ syncRequests[1].idempotencyKey = "uuid-1"

\* C6 (as claimed): all calls of all attempts made with the same BookingRequest carry
\* one key, so each deduplicating system holds at most one record for the request.
C6_RetriesShareKey ==
    \A r \in BookingRequests :
        /\ Cardinality(KeysFor(r)) <= 1
        /\ Cardinality(RecordsFor(providerStore, r)) <= 1
        /\ Cardinality(RecordsFor(backendStore, r)) <= 1

\* C6 (amended): the same, for a BookingRequest that supplies a non-empty
\* idempotencyKey: every call carries that key.
C6_RetriesShareSuppliedKey ==
    \A r \in BookingRequests :
        SuppliesKey(r)
        => /\ \A e \in CallsFor(r) : e.key = r.idempotencyKey
           /\ Cardinality(RecordsFor(providerStore, r)) <= 1
           /\ Cardinality(RecordsFor(backendStore, r)) <= 1

\* C6 witness: two attempts with the same keyed request, both stored once
C6_Witness ==
    /\ BookingDone /\ attempts = 2
    /\ SuppliesKey(bookingData)
    /\ providerLog = {[req |-> bookingData, key |-> "k1"]}
    /\ syncLog = {[req |-> bookingData, key |-> "k1"]}
    /\ Cardinality(providerStore) = 1 /\ Cardinality(backendStore) = 1

\* C7: searchAvailability rejects whenever the response is non-2xx (or the fetch
\* fails), and a value it returns is the data field of a 2xx response's body.
C7_SearchHardFailure ==
    (pc = "done" /\ Len(searchRequests) = 1)
    => /\ (~searchOutcome.net \/ ~searchOutcome.ok => result.kind = "throw")
       /\ (result.kind = "return"
           => /\ searchOutcome.net /\ searchOutcome.ok /\ searchOutcome.json
              /\ searchOutcome.data # Null
              /\ result.value = IF "data" \in DOMAIN searchOutcome.data
                                THEN searchOutcome.data.data ELSE UndefinedValue)
       /\ result.kind \in {"throw", "return"}

\* C7 witness: a non-2xx response that carried availability data was rejected
C7_Witness ==
    /\ pc = "done" /\ Len(searchRequests) = 1
    /\ searchOutcome.net /\ ~searchOutcome.ok /\ searchOutcome.json
    /\ "data" \in DOMAIN searchOutcome.data
    /\ result = Throw("Failed to fetch availability")

\* the start date of the call is later than its end date
StartAfterEnd == TimeLess(searchArgs.endDate, searchArgs.startDate)

\* C8 (as claimed): a search whose start date is later than its end date returns an
\* error.
C8_StartAfterEndRejected ==
    (pc = "done" /\ StartAfterEnd) => result.kind = "throw"

\* C8 (amended): such a range is not checked locally: the request is sent with the
\* dates as given, and the call rejects exactly when the backend's answer is not a
\* readable 2xx response.
C8_StartAfterEndForwarded ==
    StartAfterEnd
    => /\ pc \in {"awaitSearch", "done"}
       /\ Len(searchRequests) = 1
       /\ DateParse(searchRequests[1].start_at) = searchArgs.startDate
       /\ DateParse(searchRequests[1].end_at) = searchArgs.endDate
       /\ (pc = "done"
           => (result.kind = "throw"
               <=> ~(searchOutcome.net /\ searchOutcome.ok /\ searchOutcome.json
                     /\ searchOutcome.data # Null)))

\* C8 witness: a reversed range for which the backend's 2xx data was returned
C8_Witness ==
    /\ pc = "done" /\ StartAfterEnd
    /\ result = Return(Availability(<< Slot(D1), Slot(D3) >>))

\* C9: an execution issues at most one provider call and at most one sync call; the
\* sync call exists only once the provider call has completed successfully; an
\* execution that returned a result issued exactly one of each.
C9_TwoSequentialCalls ==
    /\ Len(providerRequests) <= 1
    /\ Len(syncRequests) <= 1
    /\ (pc = "awaitSquare" => syncRequests = << >>)
    /\ (Len(providerRequests) = 1 /\ Len(syncRequests) = 1
        => pc \in {"awaitSync", "done"} /\ ProviderSucceeded(squareOutcome))
    /\ (BookingDone /\ result.kind = "return"
        => Len(providerRequests) = 1 /\ Len(syncRequests) = 1)

\* C9 witness: a second execution returned after one provider and one sync call
C9_Witness ==
    /\ BookingDone /\ attempts = 2 /\ result.kind = "return"
    /\ Len(syncRequests) = 1 /\ Cardinality(providerLog) = 2

\* C10: syncBookingWithBackend never throws; it returns null on a network error, a
\* non-2xx response or an unreadable body, and the parsed body on a readable 2xx
\* response; a (non-empty) provider booking id is sent as square_booking_id.
C10_SyncNeverThrows ==
    /\ (Len(syncRequests) = 1 /\ TruthyStr(squareBookingId)
        => /\ Field(syncRequests[1], "square_booking_id") = squareBookingId
           /\ \A f \in DOMAIN bookingData : syncRequests[1][f] = bookingData[f])
    /\ (pc = "done"
        => /\ result.kind = "return"
           /\ (~syncOutcome.net \/ ~syncOutcome.ok \/ ~syncOutcome.json
               => result.value = Null)
           /\ (syncOutcome.net /\ syncOutcome.ok /\ syncOutcome.json
               => result.value = syncOutcome.data))

\* C10 witness: a call with a booking id whose fetch failed returned null
C10_Witness ==
    /\ pc = "done" /\ ~syncOutcome.net
    /\ squareBookingId = "sq1" /\ syncRequests[1].square_booking_id = "sq1"
    /\ result = Return(Null)

============================================================================
